---- MODULE Spec2Model ----
(***************************************************************************)
(* Model of car_fleet_api.py: a Flask/SQLAlchemy service over three        *)
(* SQLite tables (cars, drivers, positions).  The development server       *)
(* handles requests in threads, each with its own SQLAlchemy session, so a *)
(* handler is a sequence of steps: the queries it runs first, the blocking *)
(* geocoding call (position ingestion only), and the final commit.  Steps  *)
(* of different requests interleave.                                       *)
(***************************************************************************)
EXTENDS Integers, Sequences, FiniteSets

VARIABLES cars, drivers, positions, clock, req

vars == <<cars, drivers, positions, clock, req>>

(* ---------------- bounds ---------------- *)
MaxCarId == 2       \* largest cars.id handed out
MaxClock == 2       \* number of datetime.now() readings

Reqs == {1, 2}      \* request threads of the development server
Plates == {"A", "B"}
NULL == -1          \* None / SQL NULL in an integer column
Drivers == {1, 2}   \* ids in the drivers table, which no handler writes
DriverIdInputs == {0} \cup Drivers \cup {3}
BodyDriverIds == {NULL} \cup DriverIdInputs
\* (latitude, longitude) of a request body: a finite float "flt", a missing
\* key "none", an integer "int", and the floats NaN and Infinity, which
\* json.loads accepts.
CoordInputs ==
    { <<"flt", "flt">>, <<"none", "flt">>, <<"flt", "int">>,
      <<"nan", "flt">>, <<"flt", "inf">> }
\* Outcomes of get(url).json(): it raises (provider error, timeout, body that
\* is not the expected JSON), or yields an empty list, or a list whose first
\* entry has or lacks display_name.
GeoFailures == {"raises"}
GeoResponses == GeoFailures \cup {"empty", "named", "unnamed"}

(* ---------------- pure helpers ---------------- *)
MaxOf(S) == CHOOSE x \in S : \A y \in S : y <= x

\* SQLite INTEGER PRIMARY KEY without AUTOINCREMENT: largest rowid plus one.
NextRowId(rows) == IF rows = {} THEN 1 ELSE MaxOf({c.id : c \in rows}) + 1

\* CarModel.find_by_attribute(license_plate=plate): the matching rows.
FindCarByPlate(plate) == {c \in cars : c.license_plate = plate}

FirstCar(plate) == CHOOSE c \in FindCarByPlate(plate) : TRUE

\* Python truthiness of the driver_id taken from the JSON body.
Truthy(d) == d # NULL /\ d # 0

\* Variant: a driver already assigned to some car counts as missing.
DriverExists_Unassigned(d) == d \in drivers /\ ~ \E c \in cars : c.driver_id = d

\* DriverModel.find_by_attribute(id=d) is not None.
DriverExists(d) == d \in drivers

\* "driver_id and not DriverModel.find_by_attribute(id=driver_id)"
DriverCheckFails(d) == Truthy(d) /\ ~ DriverExists(d)

\* Variant: the column without its unique constraint.
UniqueViolation_NoConstraint(plate) == FALSE

\* unique=True on cars.license_plate: the INSERT is rejected.
UniqueViolation(plate) == \E c \in cars : c.license_plate = plate

\* isinstance(x, float)
IsFloat(x) == x \in {"flt", "nan", "inf"}

\* Variant: the coordinates validated before the car is looked up.
IngestCheck_CoordsFirst(found, lat, lon) ==
    IF ~ IsFloat(lat) \/ ~ IsFloat(lon) THEN "InvalidCoordinates"
    ELSE IF ~ found THEN "CarNotFound"
    ELSE "proceed"

\* The two early returns of CarPosition.post, in the code's order.
IngestCheck(found, lat, lon) ==
    IF ~ found THEN "CarNotFound"
    ELSE IF ~ IsFloat(lat) \/ ~ IsFloat(lon) THEN "InvalidCoordinates"
    ELSE "proceed"

\* Variant: any first entry is taken to carry a display name.
Address_AnyEntry(resp) == IF resp \in {"named", "unnamed"} THEN "addr" ELSE ""

\* PositionModel.resolve_address on a response that parsed to a list.
Address(resp) == IF resp = "named" THEN "addr" ELSE ""

\* Variant: the driver looked up before the car.
AssignCheck_DriverFirst(found, exists) ==
    IF ~ exists THEN "DriverNotFound"
    ELSE IF ~ found THEN "CarNotFound"
    ELSE "proceed"

\* The two early returns of AssignDriver.post, in the code's order.
AssignCheck(found, exists) ==
    IF ~ found THEN "CarNotFound"
    ELSE IF ~ exists THEN "DriverNotFound"
    ELSE "proceed"

\* Variant: only a car without driver is refused.
UnassignMismatch_OnlyNone(current, d) == current = NULL

\* Variant: a car without driver passes the comparison.
UnassignMismatch_IgnoreNone(current, d) == current # d /\ current # NULL

\* "car.driver_id != driver_id"
UnassignMismatch(current, d) == current # d

\* SQLite binds a NaN double as NULL; latitude/longitude are NOT NULL.
NotNullViolation(lat, lon) == lat = "nan" \/ lon = "nan"

\* PositionModel.query.filter_by(car_id=id).all(): table scan in rowid order.
RECURSIVE PositionsOfCar(_, _)
PositionsOfCar(id, n) ==
    IF n = 0 THEN <<>>
    ELSE LET rest == PositionsOfCar(id, n - 1)
         IN IF positions[n].car_id = id THEN Append(rest, n) ELSE rest

IdleReq ==
    [op |-> "none", pc |-> "idle", plate |-> "", driver_id |-> NULL,
     lat |-> "none", lon |-> "none", car_id |-> 0, car_driver |-> NULL,
     date |-> 0, address |-> "", result |-> "none", listing |-> <<>>]

\* Thread r is inside a handler.
Busy(r) == req[r].pc \notin {"idle", "done"}

\* A new request is served by the lowest-numbered thread that is not busy.
Free(r) == ~ Busy(r) /\ \A q \in Reqs : q < r => Busy(q)

\* The handler returns: the thread keeps only the kind of request, its
\* outcome and the listing it sent.
Finish(rec, res) ==
    [IdleReq EXCEPT !.op = rec.op, !.pc = "done", !.listing = rec.listing, !.result = res]

\* Car.post requests that are past their checks and have not committed.
InFlightCreates == Cardinality({q \in Reqs : req[q].op = "create" /\ req[q].pc = "commit"})

(* ---------------- Init ---------------- *)
Init ==
    /\ cars = {}
    /\ drivers = Drivers
    /\ positions = <<>>
    /\ clock = 0
    /\ req = [r \in Reqs |-> IdleReq]

(* ---------------- Car.post ---------------- *)
\* Variant: the driver validated before the plate is looked up.
CarPost_DriverFirst(r, plate, driver_id) ==
    /\ Free(r)
    /\ LET new == [IdleReq EXCEPT !.op = "create", !.plate = plate,
                                  !.driver_id = driver_id]
       IN IF DriverCheckFails(driver_id)
          THEN req' = [req EXCEPT ![r] = Finish(new, "DriverNotFound")]
          ELSE IF FindCarByPlate(plate) # {}
          THEN req' = [req EXCEPT ![r] = Finish(new, "DuplicateKey")]
          ELSE /\ NextRowId(cars) + InFlightCreates <= MaxCarId
               /\ req' = [req EXCEPT ![r] = [new EXCEPT !.pc = "commit"]]
    /\ UNCHANGED <<cars, drivers, positions, clock>>

CarPost(r, plate, driver_id) ==
    /\ Free(r)
    /\ LET new == [IdleReq EXCEPT !.op = "create", !.plate = plate,
                                  !.driver_id = driver_id]
       IN IF FindCarByPlate(plate) # {}
          THEN req' = [req EXCEPT ![r] = Finish(new, "DuplicateKey")]
          ELSE IF DriverCheckFails(driver_id)
          THEN req' = [req EXCEPT ![r] = Finish(new, "DriverNotFound")]
          ELSE /\ NextRowId(cars) + InFlightCreates <= MaxCarId
               /\ req' = [req EXCEPT ![r] = [new EXCEPT !.pc = "commit"]]
    /\ UNCHANGED <<cars, drivers, positions, clock>>

CarPostCommit(r) ==
    /\ req[r].op = "create" /\ req[r].pc = "commit"
    /\ IF UniqueViolation(req[r].plate)
       THEN /\ req' = [req EXCEPT ![r] = Finish(@, "ServerError")]
            /\ UNCHANGED cars
       ELSE /\ cars' = cars \cup {[id |-> NextRowId(cars),
                                   license_plate |-> req[r].plate,
                                   driver_id |-> req[r].driver_id]}
            /\ req' = [req EXCEPT ![r] = Finish(@, "OK")]
    /\ UNCHANGED <<drivers, positions, clock>>

(* ---------------- the flush of a changed driver_id ---------------- *)
\* Variant: the UPDATE without its WHERE clause, writing every row.
FlushDriver_NoWhere(r, new) ==
    IF req[r].car_driver = new
    THEN /\ req' = [req EXCEPT ![r] = Finish(@, "OK")]
         /\ UNCHANGED cars
    ELSE IF ~ \E c \in cars : c.id = req[r].car_id
    THEN /\ req' = [req EXCEPT ![r] = Finish(@, "ServerError")]
         /\ UNCHANGED cars
    ELSE /\ cars' = {[c EXCEPT !.driver_id = new] : c \in cars}
         /\ req' = [req EXCEPT ![r] = Finish(@, "OK")]

\* session.commit() after "car.driver_id = new": no UPDATE when the value
\* equals the loaded one; otherwise UPDATE cars ... WHERE id = car.id, and
\* StaleDataError when no row matches.
FlushDriver(r, new) ==
    IF req[r].car_driver = new
    THEN /\ req' = [req EXCEPT ![r] = Finish(@, "OK")]
         /\ UNCHANGED cars
    ELSE IF ~ \E c \in cars : c.id = req[r].car_id
    THEN /\ req' = [req EXCEPT ![r] = Finish(@, "ServerError")]
         /\ UNCHANGED cars
    ELSE /\ cars' = {IF c.id = req[r].car_id THEN [c EXCEPT !.driver_id = new] ELSE c : c \in cars}
         /\ req' = [req EXCEPT ![r] = Finish(@, "OK")]

(* ---------------- Car.put ---------------- *)
CarPut(r, plate, driver_id) ==
    /\ Free(r)
    /\ LET new == [IdleReq EXCEPT !.op = "update", !.plate = plate,
                                  !.driver_id = driver_id]
       IN IF FindCarByPlate(plate) = {}
          THEN req' = [req EXCEPT ![r] = Finish(new, "CarNotFound")]
          ELSE IF DriverCheckFails(driver_id)
          THEN req' = [req EXCEPT ![r] = Finish(new, "DriverNotFound")]
          ELSE req' = [req EXCEPT ![r] = [new EXCEPT !.pc = "commit",
                          !.car_id = FirstCar(plate).id,
                          !.car_driver = FirstCar(plate).driver_id]]
    /\ UNCHANGED <<cars, drivers, positions, clock>>

CarPutCommit(r) ==
    /\ req[r].op = "update" /\ req[r].pc = "commit"
    /\ FlushDriver(r, req[r].driver_id)
    /\ UNCHANGED <<drivers, positions, clock>>

(* ---------------- Car.delete ---------------- *)
CarDelete(r, plate) ==
    /\ Free(r)
    /\ LET new == [IdleReq EXCEPT !.op = "delete", !.plate = plate]
       IN IF FindCarByPlate(plate) = {}
          THEN req' = [req EXCEPT ![r] = Finish(new, "CarNotFound")]
          ELSE req' = [req EXCEPT ![r] = [new EXCEPT !.pc = "commit",
                          !.car_id = FirstCar(plate).id]]
    /\ UNCHANGED <<cars, drivers, positions, clock>>

\* DELETE FROM cars WHERE id = car.id; a row count of 0 is only a warning.
\* No relationship or cascade is declared, so positions are left alone.
CarDeleteCommit(r) ==
    /\ req[r].op = "delete" /\ req[r].pc = "commit"
    /\ cars' = {c \in cars : c.id # req[r].car_id}
    /\ req' = [req EXCEPT ![r] = Finish(@, "OK")]
    /\ UNCHANGED <<drivers, positions, clock>>

(* ---------------- CarPosition.post ---------------- *)
CarPositionPost(r, plate, lat, lon) ==
    /\ Free(r)
    /\ LET new == [IdleReq EXCEPT !.op = "ingest", !.plate = plate,
                                  !.lat = lat, !.lon = lon]
           outcome == IngestCheck(FindCarByPlate(plate) # {}, lat, lon)
       IN IF outcome # "proceed"
          THEN /\ req' = [req EXCEPT ![r] = Finish(new, outcome)]
               /\ UNCHANGED clock
          ELSE /\ clock < MaxClock
               /\ clock' = clock + 1
               /\ req' = [req EXCEPT ![r] = [new EXCEPT !.pc = "geocode",
                             !.car_id = FirstCar(plate).id,
                             !.date = clock + 1]]
    /\ UNCHANGED <<cars, drivers, positions>>

\* car_position.resolve_address(): get(url).json() raises on a provider
\* error, a timeout or a body that is not the expected JSON list.
ResolveAddress(r, resp) ==
    /\ req[r].op = "ingest" /\ req[r].pc = "geocode"
    /\ IF resp \in GeoFailures
       THEN req' = [req EXCEPT ![r] = Finish(@, "ServerError")]
       ELSE req' = [req EXCEPT ![r] = [@ EXCEPT !.address = Address(resp), !.pc = "commit"]]
    /\ UNCHANGED <<cars, drivers, positions, clock>>

\* get(url) is called without a timeout: when the provider accepts the
\* connection and never answers, the call never returns.
ResolveAddressBlocks(r) ==
    /\ req[r].op = "ingest" /\ req[r].pc = "geocode"
    /\ req' = [req EXCEPT ![r] = [@ EXCEPT !.pc = "blocked"]]
    /\ UNCHANGED <<cars, drivers, positions, clock>>

\* Variant: the commit keeps one row per car, replacing the car's first
\* stored position when there is one.
CarPositionPostCommit_Upsert(r) ==
    /\ req[r].op = "ingest" /\ req[r].pc = "commit"
    /\ IF NotNullViolation(req[r].lat, req[r].lon)
       THEN /\ req' = [req EXCEPT ![r] = Finish(@, "ServerError")]
            /\ UNCHANGED positions
       ELSE /\ LET old == {i \in 1..Len(positions) : positions[i].car_id = req[r].car_id}
                   at == IF old = {} THEN Len(positions) + 1
                         ELSE CHOOSE i \in old : \A j \in old : i <= j
                   row == [id |-> at, car_id |-> req[r].car_id,
                           latitude |-> req[r].lat, longitude |-> req[r].lon,
                           date |-> req[r].date, address |-> req[r].address]
               IN positions' = IF old = {} THEN Append(positions, row)
                               ELSE [positions EXCEPT ![at] = row]
            /\ req' = [req EXCEPT ![r] = Finish(@, "OK")]
    /\ UNCHANGED <<cars, drivers, clock>>

CarPositionPostCommit(r) ==
    /\ req[r].op = "ingest" /\ req[r].pc = "commit"
    /\ IF NotNullViolation(req[r].lat, req[r].lon)
       THEN /\ req' = [req EXCEPT ![r] = Finish(@, "ServerError")]
            /\ UNCHANGED positions
       ELSE /\ positions' = Append(positions,
                   [id |-> Len(positions) + 1, car_id |-> req[r].car_id,
                    latitude |-> req[r].lat, longitude |-> req[r].lon,
                    date |-> req[r].date, address |-> req[r].address])
            /\ req' = [req EXCEPT ![r] = Finish(@, "OK")]
    /\ UNCHANGED <<cars, drivers, clock>>

(* ---------------- CarPositions.get ---------------- *)
CarPositionsGet(r, plate) ==
    /\ Free(r)
    /\ LET new == [IdleReq EXCEPT !.op = "list", !.plate = plate]
       IN IF FindCarByPlate(plate) = {}
          THEN req' = [req EXCEPT ![r] = Finish(new, "CarNotFound")]
          ELSE req' = [req EXCEPT ![r] = Finish([new EXCEPT
                          !.listing = PositionsOfCar(FirstCar(plate).id, Len(positions))], "OK")]
    /\ UNCHANGED <<cars, drivers, positions, clock>>

(* ---------------- AssignDriver.post ---------------- *)
AssignDriverPost(r, plate, driver_id) ==
    /\ Free(r)
    /\ LET new == [IdleReq EXCEPT !.op = "assign", !.plate = plate,
                                  !.driver_id = driver_id]
           outcome == AssignCheck(FindCarByPlate(plate) # {}, DriverExists(driver_id))
       IN IF outcome # "proceed"
          THEN req' = [req EXCEPT ![r] = Finish(new, outcome)]
          ELSE req' = [req EXCEPT ![r] = [new EXCEPT !.pc = "commit",
                          !.car_id = FirstCar(plate).id,
                          !.car_driver = FirstCar(plate).driver_id]]
    /\ UNCHANGED <<cars, drivers, positions, clock>>

AssignDriverPostCommit(r) ==
    /\ req[r].op = "assign" /\ req[r].pc = "commit"
    /\ FlushDriver(r, req[r].driver_id)
    /\ UNCHANGED <<drivers, positions, clock>>

(* ---------------- AssignDriver.delete ---------------- *)
AssignDriverDelete(r, plate, driver_id) ==
    /\ Free(r)
    /\ LET new == [IdleReq EXCEPT !.op = "unassign", !.plate = plate,
                                  !.driver_id = driver_id]
       IN IF FindCarByPlate(plate) = {}
          THEN req' = [req EXCEPT ![r] = Finish(new, "CarNotFound")]
          ELSE IF UnassignMismatch(FirstCar(plate).driver_id, driver_id)
          THEN req' = [req EXCEPT ![r] = Finish(new, "AssignmentMismatch")]
          ELSE req' = [req EXCEPT ![r] = [new EXCEPT !.pc = "commit",
                          !.car_id = FirstCar(plate).id,
                          !.car_driver = FirstCar(plate).driver_id]]
    /\ UNCHANGED <<cars, drivers, positions, clock>>

AssignDriverDeleteCommit(r) ==
    /\ req[r].op = "unassign" /\ req[r].pc = "commit"
    /\ FlushDriver(r, NULL)
    /\ UNCHANGED <<drivers, positions, clock>>

(* ---------------- specifications ---------------- *)
\* a step of thread r in a car or driver-assignment handler
FleetStep(r) ==
    \/ \E p \in Plates, d \in BodyDriverIds : CarPost(r, p, d)
    \/ CarPostCommit(r)
    \/ \E p \in Plates, d \in BodyDriverIds : CarPut(r, p, d)
    \/ CarPutCommit(r)
    \/ \E p \in Plates : CarDelete(r, p)
    \/ CarDeleteCommit(r)
    \/ \E p \in Plates, d \in DriverIdInputs : AssignDriverPost(r, p, d)
    \/ AssignDriverPostCommit(r)
    \/ \E p \in Plates, d \in DriverIdInputs : AssignDriverDelete(r, p, d)
    \/ AssignDriverDeleteCommit(r)

\* a step of thread r in a position handler, or creating or deleting a car
TrackStep(r) ==
    \/ \E p \in Plates : CarPost(r, p, NULL)
    \/ CarPostCommit(r)
    \/ \E p \in Plates : CarDelete(r, p)
    \/ CarDeleteCommit(r)
    \/ \E p \in Plates, xy \in CoordInputs : CarPositionPost(r, p, xy[1], xy[2])
    \/ \E resp \in GeoResponses : ResolveAddress(r, resp)
    \/ CarPositionPostCommit(r)
    \/ \E p \in Plates : CarPositionsGet(r, p)

\* every handler, requests served concurrently
Next == \E r \in Reqs : FleetStep(r) \/ TrackStep(r)

Spec == Init /\ [][Next]_vars

\* the car and driver-assignment handlers, requests served concurrently
NextFleet == \E r \in Reqs : FleetStep(r)

SpecFleet == Init /\ [][NextFleet]_vars

\* the position handlers, requests served concurrently
NextTrack == \E r \in Reqs : TrackStep(r)

SpecTrack == Init /\ [][NextTrack]_vars

\* the same handlers with one request served at a time
NextFleetSeq == FleetStep(1)

SpecFleetSeq == Init /\ [][NextFleetSeq]_vars

NextTrackSeq == TrackStep(1)

SpecTrackSeq == Init /\ [][NextTrackSeq]_vars

\* every handler, one request served at a time, with fewer request bodies:
\* driver ids absent, existing (1) and unknown (3); coordinates finite,
\* missing and NaN
NextAllSeq ==
    \/ \E p \in Plates, d \in {NULL, 1, 3} : CarPost(1, p, d)
    \/ CarPostCommit(1)
    \/ \E p \in Plates, d \in {NULL, 1, 3} : CarPut(1, p, d)
    \/ CarPutCommit(1)
    \/ \E p \in Plates : CarDelete(1, p)
    \/ CarDeleteCommit(1)
    \/ \E p \in Plates, d \in {1, 3} : AssignDriverPost(1, p, d)
    \/ AssignDriverPostCommit(1)
    \/ \E p \in Plates, d \in {1, 3} : AssignDriverDelete(1, p, d)
    \/ AssignDriverDeleteCommit(1)
    \/ \E p \in Plates, x \in {"flt", "none", "nan"} : CarPositionPost(1, p, x, "flt")
    \/ \E resp \in GeoResponses : ResolveAddress(1, resp)
    \/ CarPositionPostCommit(1)
    \/ \E p \in Plates : CarPositionsGet(1, p)

SpecAllSeq == Init /\ [][NextAllSeq]_vars

\* the position handlers with a provider that may never answer; a thread
\* takes its next step whenever it has one
NextTrackLive == TrackStep(1) \/ ResolveAddressBlocks(1)

SpecTrackLive == Init /\ [][NextTrackLive]_vars /\ WF_vars(NextTrackLive)

(* ======================= properties ======================= *)

\* Thread r takes up a new request of kind op in this step.
Starts(r, op) == ~ Busy(r) /\ req'[r] # req[r] /\ req'[r].op = op

\* Thread r performs the commit of its request of kind op in this step.
Commits(r, op) == req[r].op = op /\ req[r].pc = "commit" /\ req'[r].pc = "done"

\* C1: in every reachable state no two cars have the same license_plate,
\* also when two create-car requests for one plate both pass the existence
\* check before either commits.
C1_PlateUnique ==
    \A c1 \in cars, c2 \in cars : c1.license_plate = c2.license_plate => c1 = c2

\* A create-car request passed the existence check and was then rejected by
\* the unique constraint at commit, the car of the winning request exists.
C1_Witness ==
    \E r \in Reqs : /\ req[r].op = "create" /\ req[r].result = "ServerError"
                    /\ cars # {}

\* C2: when the geocoding lookup fails, the ingest goes on with address ""
\* towards persisting its position; the failure does not end the request.
C2_GeocodeFailureTolerated ==
    [][\A r \in Reqs :
          (req[r].pc = "geocode" /\ ResolveAddress(r, "raises")) =>
          /\ req'[r].pc = "commit"
          /\ req'[r].address = ""
          /\ req'[r].result # "ServerError"]_vars

\* x is a finite floating-point value.
IsFinite(x) == x = "flt"

SortedByDate(l) ==
    \A i \in 1..Len(l), j \in 1..Len(l) :
        i < j => positions[l[i]].date <= positions[l[j]].date

\* C3: every successful listForCar returns the car's positions sorted
\* ascending by date, whatever the order in which they were committed.
C3_ListingSortedByDate ==
    \A r \in Reqs : (req[r].op = "list" /\ req[r].result = "OK") =>
                        SortedByDate(req[r].listing)

\* C4: an ingest on an existing car whose latitude or longitude is missing,
\* NaN, non-finite or not a float ends at once with InvalidCoordinates: it
\* creates no position and never reaches the geocoding call.
C4_InvalidCoordinatesRejected ==
    [][\A r \in Reqs : Starts(r, "ingest") =>
          \A p \in Plates, xy \in CoordInputs :
              ( /\ CarPositionPost(r, p, xy[1], xy[2])
                /\ FindCarByPlate(p) # {}
                /\ ~ (IsFinite(xy[1]) /\ IsFinite(xy[2])) ) =>
              /\ req'[r].pc = "done"
              /\ req'[r].result = "InvalidCoordinates"
              /\ positions' = positions]_vars

\* C5: create-car and update-car-driver with a provided driverId (0 included)
\* that references no driver end with DriverNotFound, and every car's
\* non-null driver_id references an existing driver.
C5_DriverReferenceValidated ==
    [][ /\ \A r \in Reqs : (Starts(r, "create") \/ Starts(r, "update")) =>
              \A p \in Plates, d \in BodyDriverIds :
                  ( /\ d # NULL /\ d \notin drivers
                    /\ \/ CarPost(r, p, d) /\ FindCarByPlate(p) = {}
                       \/ CarPut(r, p, d) /\ FindCarByPlate(p) # {} ) =>
                  (req'[r].pc = "done" /\ req'[r].result = "DriverNotFound")
        /\ \A c \in cars' : c.driver_id # NULL => c.driver_id \in drivers'
      ]_vars

\* C6: unassign(c, d) on an existing car whose current driver is not d (a car
\* without driver included) ends at once with AssignmentMismatch and changes
\* no car, driver or position.
C6_UnassignMismatch ==
    [][\A r \in Reqs : Starts(r, "unassign") =>
          \A p \in Plates, d \in DriverIdInputs :
              ( /\ AssignDriverDelete(r, p, d)
                /\ FindCarByPlate(p) # {}
                /\ FirstCar(p).driver_id # d ) =>
              /\ req'[r].pc = "done"
              /\ req'[r].result = "AssignmentMismatch"
              /\ cars' = cars /\ drivers' = drivers /\ positions' = positions]_vars

\* An unassign was refused with AssignmentMismatch while no car has a driver.
C6_Witness ==
    /\ cars # {}
    /\ \A c \in cars : c.driver_id = NULL
    /\ \E r \in Reqs : req[r].op = "unassign" /\ req[r].result = "AssignmentMismatch"

\* C7: assign on an unknown plate ends with CarNotFound, whatever the driver
\* id; assign on an existing car with an unknown driver id ends with
\* DriverNotFound; in both cases nothing is written.
C7_AssignValidation ==
    [][\A r \in Reqs : Starts(r, "assign") =>
          \A p \in Plates, d \in DriverIdInputs :
              AssignDriverPost(r, p, d) =>
              /\ FindCarByPlate(p) = {} =>
                    (req'[r].pc = "done" /\ req'[r].result = "CarNotFound")
              /\ (FindCarByPlate(p) # {} /\ d \notin drivers) =>
                    (req'[r].pc = "done" /\ req'[r].result = "DriverNotFound")
              /\ (FindCarByPlate(p) = {} \/ d \notin drivers) =>
                    (cars' = cars /\ drivers' = drivers /\ positions' = positions)]_vars

\* An assign was refused with DriverNotFound while a car exists.
C7_Witness ==
    /\ cars # {}
    /\ \E r \in Reqs : req[r].op = "assign" /\ req[r].result = "DriverNotFound"

\* C8: with requests served one after the other, assign(c, d) on an existing
\* car and driver passes validation also when c already has driver d; its
\* commit succeeds, leaves c.driver_id = d and every other car as it was,
\* and when c already had driver d it changes nothing at all.
C8_AssignIdempotent ==
    [][\A r \in Reqs :
          /\ Starts(r, "assign") =>
                \A p \in Plates, d \in DriverIdInputs :
                    ( /\ AssignDriverPost(r, p, d)
                      /\ FindCarByPlate(p) # {} /\ d \in drivers ) =>
                    req'[r].pc = "commit"
          /\ (Commits(r, "assign") /\ AssignDriverPostCommit(r)) =>
             /\ req'[r].result = "OK"
             /\ \E c \in cars' : /\ c.license_plate = req[r].plate
                                 /\ c.driver_id = req[r].driver_id
             /\ {c \in cars' : c.license_plate # req[r].plate}
                    = {c \in cars : c.license_plate # req[r].plate}
             /\ (\E c \in cars : /\ c.license_plate = req[r].plate
                                 /\ c.driver_id = req[r].driver_id) => cars' = cars
             /\ drivers' = drivers /\ positions' = positions]_vars

\* A second assign of the driver the car already has is at its commit.
C8_Witness ==
    \E r \in Reqs :
        /\ req[r].op = "assign" /\ req[r].pc = "commit"
        /\ req[r].car_driver = req[r].driver_id
        /\ \E c \in cars : /\ c.license_plate = req[r].plate
                           /\ c.driver_id = req[r].driver_id

\* C9: ingest on a plate that matches no car ends at once with CarNotFound
\* whatever the coordinates, creates no position and never reaches the
\* geocoding call; listForCar on such a plate ends with CarNotFound.
C9_UnknownPlate ==
    [][\A r \in Reqs :
          /\ Starts(r, "ingest") =>
                \A p \in Plates, xy \in CoordInputs :
                    (FindCarByPlate(p) = {} /\ CarPositionPost(r, p, xy[1], xy[2])) =>
                    /\ req'[r].pc = "done"
                    /\ req'[r].result = "CarNotFound"
                    /\ positions' = positions
          /\ Starts(r, "list") =>
                \A p \in Plates :
                    (FindCarByPlate(p) = {} /\ CarPositionsGet(r, p)) =>
                    (req'[r].pc = "done" /\ req'[r].result = "CarNotFound")]_vars

\* An ingest was refused with CarNotFound.
C9_Witness ==
    \E r \in Reqs : req[r].op = "ingest" /\ req[r].result = "CarNotFound"

\* C10: whenever a position is committed, the car its car_id names exists.
C10_PositionReferencesExistingCar ==
    [][Len(positions') > Len(positions) =>
          \E c \in cars' : c.id = positions'[Len(positions')].car_id]_vars

\* C11: every ingest request that has started eventually returns, with a
\* committed position or an error, whatever the geocoding provider does.
C11_IngestEventuallyReturns ==
    \A r \in Reqs :
        (req[r].op = "ingest" /\ Busy(r)) ~> (req[r].op = "ingest" /\ req[r].pc = "done")

\* C12: createCar(p, d) while a car with plate p exists ends at once with
\* DuplicateKey whatever d is, and the cars, the existing one included, the
\* drivers and the positions stay as they were.
C12_DuplicatePlateRejected ==
    [][\A r \in Reqs : Starts(r, "create") =>
          \A p \in Plates, d \in BodyDriverIds :
              (FindCarByPlate(p) # {} /\ CarPost(r, p, d)) =>
              /\ req'[r].pc = "done"
              /\ req'[r].result = "DuplicateKey"
              /\ cars' = cars /\ drivers' = drivers /\ positions' = positions]_vars

\* A create-car was refused with DuplicateKey and the car it collided with
\* is still there.
C12_Witness ==
    /\ cars # {}
    /\ \E r \in Reqs : req[r].op = "create" /\ req[r].result = "DuplicateKey"

\* C13: a lookup that returns an empty result set, or a first entry without
\* display name, gives the address "", a first entry with display name gives
\* that name; the commit of an ingest with finite coordinates then adds
\* exactly one position, for the resolved car and with that address.
C13_AddressFromFirstResult ==
    [][\A r \in Reqs :
          /\ req[r].pc = "geocode" =>
                \A resp \in GeoResponses \ GeoFailures :
                    ResolveAddress(r, resp) =>
                    /\ req'[r].pc = "commit"
                    /\ req'[r].address = (IF resp = "named" THEN "addr" ELSE "")
          /\ ( /\ Commits(r, "ingest") /\ CarPositionPostCommit(r)
               /\ IsFinite(req[r].lat) /\ IsFinite(req[r].lon) ) =>
             /\ req'[r].result = "OK"
             /\ Len(positions') = Len(positions) + 1
             /\ SubSeq(positions', 1, Len(positions)) = positions
             /\ positions'[Len(positions')].address = req[r].address
             /\ positions'[Len(positions')].car_id = req[r].car_id]_vars

\* Two positions are stored, one with the empty address and one with a
\* display name.
C13_Witness ==
    \E i \in 1..Len(positions), j \in 1..Len(positions) :
        positions[i].address = "" /\ positions[j].address = "addr"

Stored(ps) == {ps[i] : i \in 1..Len(ps)}

\* C14: in every step of every handler a stored position keeps its car_id,
\* latitude, longitude, date and address; a position is added only by the
\* commit of an ingest that reports success, one at a time; a position goes
\* away only in the commit of a car deletion.
C14_PositionsImmutable ==
    [][ /\ \A p \in Stored(positions), q \in Stored(positions') :
              p.id = q.id => p = q
        /\ LET added == {q \in Stored(positions') :
                             \A p \in Stored(positions) : p.id # q.id}
           IN added # {} =>
                 /\ Cardinality(added) = 1
                 /\ \E r \in Reqs : Commits(r, "ingest") /\ req'[r].result = "OK"
        /\ (\E p \in Stored(positions) : \A q \in Stored(positions') : q.id # p.id) =>
              \E r \in Reqs : Commits(r, "delete")
      ]_vars

\* Two positions are stored and the car they were ingested for has since
\* been deleted.
C14_Witness ==
    /\ Len(positions) = 2
    /\ cars = {}
    /\ \E r \in Reqs : req[r].op = "delete" /\ req[r].result = "OK"

\* C15: the commit of a successful assign(plate, d) leaves that car with
\* driver d, whatever driver it had, and leaves every other car, also one
\* that has driver d, the drivers and the positions as they were.
C15_AssignChangesOneCar ==
    [][\A r \in Reqs :
          ( /\ Commits(r, "assign") /\ AssignDriverPostCommit(r)
            /\ req'[r].result = "OK" ) =>
          /\ \E c \in cars' : /\ c.id = req[r].car_id
                              /\ c.license_plate = req[r].plate
                              /\ c.driver_id = req[r].driver_id
          /\ \A c \in cars : c.id # req[r].car_id => c \in cars'
          /\ Cardinality(cars') = Cardinality(cars)
          /\ drivers' = drivers /\ positions' = positions]_vars

\* An assign has succeeded and two cars reference the same driver.
C15_Witness ==
    /\ \E r \in Reqs : req[r].op = "assign" /\ req[r].result = "OK"
    /\ \E c1 \in cars, c2 \in cars :
          c1 # c2 /\ c1.driver_id = c2.driver_id /\ c1.driver_id \in drivers

\* C16 as stated: when an unassign(plate, d) of an existing driver d that
\* reports success writes driver_id = null, the row it writes does not carry
\* a different existing driver d2.
C16_UnassignClearsOnlyItsDriver ==
    [][\A r \in Reqs :
          ( /\ Commits(r, "unassign") /\ AssignDriverDeleteCommit(r)
            /\ req[r].driver_id \in drivers
            /\ req'[r].result = "OK" ) =>
          \A c \in cars : c.id = req[r].car_id =>
              c.driver_id \notin drivers \ {req[r].driver_id}]_vars

\* C16 as amended: an unassign(plate, d) is at its clear only if the car
\* carried driver d when the request read it.
C16_UnassignCheckedAtRead ==
    \A r \in Reqs :
        (req[r].op = "unassign" /\ req[r].pc = "commit") =>
            (req[r].car_driver = req[r].driver_id /\ req[r].car_driver # NULL)

\* An unassign(plate, d) has passed its check and is at its clear while the
\* car now carries another driver.
C16_Witness ==
    \E r \in Reqs :
        /\ req[r].op = "unassign" /\ req[r].pc = "commit"
        /\ \E c \in cars : /\ c.id = req[r].car_id
                           /\ c.license_plate = req[r].plate
                           /\ c.driver_id \in drivers \ {req[r].driver_id}

\* C17: listForCar returns only positions ingested for the car now registered
\* under the plate; a car that is registered in this step has had none
\* ingested, so what its listing would return is empty.
C17_ListingOnlyOwnPositions ==
    [][\A c \in cars' :
          c \notin cars => PositionsOfCar(c.id, Len(positions)) = <<>>]_vars

====
